---- MODULE Spec2Model ----
(***************************************************************************)
(* The rotating log-file handler of lib/handlers/rotating.js.              *)
(*                                                                         *)
(* Two handlers, one per process, log to the same path.  A step of the     *)
(* model is what one callback of the event loop does between two waits     *)
(* for I/O (a stat, the lock, a timer): the promise chains of the source   *)
(* run to the next wait without interleaving.                              *)
(*                                                                         *)
(* Time is in milliseconds.  Records are RecordSize bytes long.            *)
(*                                                                         *)
(* rotating.js line 3 binds `fs` to require('fs').promises.  That object   *)
(* has stat and readdir (lines 8-9) but no accessSync, renameSync or       *)
(* unlinkSync: the calls of lines 359, 370, 432, 468 and 474 throw a       *)
(* TypeError.  The model follows the source: no step renames or deletes a  *)
(* file.                                                                   *)
(*                                                                         *)
(* Spec is the program under both rules, the time rule at the everysecond  *)
(* rate.  SpecRates is the time rule at the monthly rate, its clock in     *)
(* days.  SpecCalls is the time rule under an application that calls       *)
(* doRotate itself.  SpecFns applies the constructor, _renameBySize and    *)
(* the Formatter's format on their own, to arguments drawn in its Init.    *)
(* SpecLive is the program under a scheduler that runs the callbacks of    *)
(* the lock and of the stat under the lock.                                *)
(***************************************************************************)
EXTENDS Integers, FiniteSets, Sequences, Bags, TLC

Procs == {"A", "B"}
NoOwner == "none"
Undef == 0 - 1
NoData == 0 - 1

\* Bounds of the model.  MaxEmits: the calls of the application, emit and doRotate.
MaxEmits == 3
MaxTicks == 2

\* Options the handlers are constructed with.
maxSize == 1
maxFiles == 1
RecordSize == 1

\* Program constants.
maxSizeStatFileInterval == 50
TimerLimit == 2147483647

VARIABLES
    rule,       \* options.rule of both handlers: "size" or "time"
    timeRate,   \* options.timeRate of both handlers
    now,        \* Date.now()
    file,       \* the live file: exists, id (its inode), size, next (next fresh inode)
    lock,       \* the process whose lockFile.lock created <file>.rotate, or NoOwner
    archives,   \* the archive files beside the live file
    h,          \* h[p]: the fields of the handler of process p
    tasks,      \* tasks[p]: the doRotate calls and _getData retries in flight, a bag
    emitted,    \* emitted[p]: calls of emit
    written,    \* written[p]: records handed to the stream with their callback
    called,     \* called[p]: completion callbacks the stream has invoked
    external,   \* what an external actor has done to the live file, once at most
    lastAttempt,\* history: how the last doRotate that found a rotation due ended
    calls,      \* doRotate calls the application has made itself, one at most
    arg,        \* the argument of a function applied on its own
    ret         \* what that function returned

vars == <<rule, timeRate, now, file, lock, archives, h, tasks, emitted, written,
          called, external, lastAttempt, calls, arg, ret>>

\* What no step of a handler changes.
fixed == <<rule, timeRate, arg, ret>>

\* The unit of the clock, in milliseconds: a day for the monthly rate.
Unit == IF timeRate = "monthly" THEN 86400000 ELSE 1

\* The days of a month of the model's calendar.
Month == 30

ClockStep == IF rule = "size" THEN 50 ELSE IF timeRate = "monthly" THEN 15 ELSE 500

\* parseInt(d.getTime() / 1000)
Seconds(t) == IF Unit = 1 THEN t \div 1000 ELSE t * (Unit \div 1000)

----------------------------------------------------------------------------
\* rotates.everysecond and rotates.monthly; for a timeRate that has no
\* function in the table, the fallbacks of lines 172-177.

\* options.timeRate of a handler given a raw interval, in milliseconds.
Interval == 1000

nextRotate(t) ==
    IF timeRate = "monthly"
    THEN ((t \div Month) + 1) * Month
    ELSE IF timeRate = "interval"
         THEN t + Interval
         ELSE ((t \div 1000) + 1) * 1000

rotatePeriod(b) ==
    IF timeRate = "monthly"
    THEN ((b \div Month) - 1) * Month
    ELSE IF timeRate = "interval"
         THEN b - Interval
         ELSE ((b \div 1000) - 1) * 1000

----------------------------------------------------------------------------
\* The base sink's stream and the file system.

\* stream.write: the bytes land in the inode the stream was opened on.
Write(f, sid) ==
    IF f.exists /\ f.id = sid THEN [f EXCEPT !.size = @ + RecordSize] ELSE f

\* _open(): append mode, creates the file when it is missing.
Open(f) ==
    IF f.exists THEN f
    ELSE [exists |-> TRUE, id |-> f.next, size |-> 0, next |-> f.next + 1]

\* ok = FALSE: _stream.end() or _open() throws and the promise rejects.
reopen(hp, f, ok) ==
    [h  |-> [hp EXCEPT !.prevCheckTime = Undef,
                       !.prevSize = Undef,
                       !.stream = IF ok THEN Open(f).id ELSE @],
     f  |-> IF ok THEN Open(f) ELSE f]

NoUnlock(l) == l

\* lockFile.unlockSync: unlinks the marker, whoever created it; never throws.
unlockSync(l) == NoOwner

----------------------------------------------------------------------------
\* The handler.

\* _setRotateTimeout: the instant the timer it arms is due, or was when the
\* timeout is out of the range of line 160 and no timer is armed.
armed(was) ==
    LET timeoutValue == nextRotate(now) - now
    IN  IF timeoutValue > 0 /\ timeoutValue <= TimerLimit \div Unit
        THEN now + timeoutValue
        ELSE was

setRotateTimeout(hp) == [hp EXCEPT !.rotateTimeout = armed(@)]

\* The names of the table `rotates` that the model covers.
rotates == {"everysecond", "monthly"}

\* Line 172: rotates[timeRate] is undefined for a timeRate that is not a key
\* of the table, and reading its rotatePeriod throws.
ConstructorThrows == rule = "time" /\ timeRate \notin rotates

Construct ==
    [stream              |-> 0,
     prevCheckTime       |-> Undef,
     prevSize            |-> Undef,
     nextRotateCheckTime |-> Undef,
     rotateAt            |-> IF rule = "time" THEN nextRotate(now) ELSE Undef,
     rotateStartPeriod   |-> IF rule = "time" THEN rotatePeriod(nextRotate(now)) ELSE Undef,
     rotatingNow         |-> FALSE,
     rotateTimeout       |-> IF rule = "time" THEN armed(Undef) ELSE Undef]

\* The cb of doRotate: resolve (emit) or _setRotateTimeout (the timer).
callCb(hp, cb) == IF cb = "setRotateTimeout" THEN setRotateTimeout(hp) ELSE hp

StatResults(f) == IF f.exists THEN {"ok", "error"} ELSE {"ENOENT"}

\* _getData once its stat has answered res.  t is [stat.size], or NoData when
\* the promise yields undefined or rejects.  ok: a reopen of this step succeeds
\* (the catch of line 327 calls reopen again when the one of line 322 rejects).
\* retry: line 330 calls _getData() again, as the argument of then().
getData(hp, f, res, ok) ==
    IF res = "ok"
    THEN LET h1 == [hp EXCEPT
                      !.rotateAt = IF rule = "time" /\ @ = Undef
                                   THEN nextRotate(now) ELSE @,
                      !.rotateStartPeriod =
                          IF rule = "time" /\ hp.rotateAt = Undef
                          THEN rotatePeriod(nextRotate(now)) ELSE @,
                      !.prevCheckTime = IF @ = Undef THEN now ELSE @,
                      !.prevSize = IF @ = Undef THEN f.size ELSE @]
         IN  IF rule = "size" /\ h1.prevSize > f.size
             THEN LET r == reopen([h1 EXCEPT !.prevSize = f.size], f, ok)
                  IN  [h |-> r.h, f |-> r.f, t |-> NoData, retry |-> FALSE]
             ELSE [h |-> [h1 EXCEPT !.prevSize = f.size], f |-> f,
                   t |-> f.size, retry |-> FALSE]
    ELSE LET r == reopen(hp, f, ok)
         IN  [h |-> r.h, f |-> r.f, t |-> NoData, retry |-> (res = "ENOENT")]

shouldRotateAfter(hp, t, force) ==
    IF t = NoData THEN FALSE
    ELSE IF rule = "time"
         THEN \/ force
              \/ Seconds(hp.rotateAt) < Seconds(now)
              \/ Seconds(hp.prevCheckTime) < Seconds(hp.rotateStartPeriod)
         ELSE t > maxSize

shouldRotate(hp, t, force) ==
    IF t = NoData THEN FALSE
    ELSE IF rule = "time"
         THEN \/ force
              \/ Seconds(hp.rotateAt) <= Seconds(now)
              \/ Seconds(hp.prevCheckTime) < Seconds(hp.rotateStartPeriod)
         ELSE t > maxSize

keepSchedule(hp) == hp

resetToThisPeriod(hp) ==
    IF rule = "time"
    THEN [hp EXCEPT !.rotateAt = rotatePeriod(nextRotate(now)),
                    !.rotateStartPeriod = rotatePeriod(rotatePeriod(nextRotate(now)))]
    ELSE hp

\* rotate, lines 397-400 (and 388-391): the schedule restarts from the clock.
resetSchedule(hp) ==
    IF rule = "time"
    THEN [hp EXCEPT !.rotateAt = nextRotate(now),
                    !.rotateStartPeriod = rotatePeriod(nextRotate(now))]
    ELSE hp

rotateRejected(hp) == hp

\* doRotate, lines 229-232: rotate() has resolved, the guard is cleared.
rotateResolved(hp) == [hp EXCEPT !.rotatingNow = FALSE]

StartsRotateUnguarded(hp, result) == result

\* doRotate, lines 225-227: whether rotate() is started.
StartsRotate(hp, result) == result /\ ~hp.rotatingNow

CheckDueAtDeadline(hp) ==
    /\ rule = "size"
    /\ \/ hp.nextRotateCheckTime = Undef
       \/ hp.nextRotateCheckTime - now <= 0

\* emit, line 204.
CheckDue(hp) ==
    /\ rule = "size"
    /\ \/ hp.nextRotateCheckTime = Undef
       \/ hp.nextRotateCheckTime - now < 0

WriteAfterCheck(due, ok) == ~due \/ ok

\* emit, line 202: the record is written before the check, whatever it does.
WriteIssued(due, ok) == TRUE

StatTask(force, cb) == [pc |-> "stat", force |-> force, cb |-> cb]
RetryTask == [pc |-> "retry", force |-> FALSE, cb |-> "none"]
\* The _getData() that the catch of a retry starts in its turn.
AgainTask == [pc |-> "again", force |-> FALSE, cb |-> "none"]

Add(b, t) == b (+) SetToBag({t})
Remove(b, t) == b (-) SetToBag({t})
Moved(b, t, pc) == Add(Remove(b, t), [t EXCEPT !.pc = pc])
WithRetry(b, retry) == IF retry THEN Add(b, RetryTask) ELSE b

Total(c) == c["A"] + c["B"]

----------------------------------------------------------------------------
\* An empty live file, and nothing called yet.
Untouched ==
    /\ file = [exists |-> TRUE, id |-> 0, size |-> 0, next |-> 1]
    /\ lock = NoOwner
    /\ archives = {}
    /\ tasks = [p \in Procs |-> EmptyBag]
    /\ emitted = [p \in Procs |-> 0]
    /\ written = [p \in Procs |-> 0]
    /\ called = [p \in Procs |-> 0]
    /\ external = "none"
    /\ lastAttempt = "none"
    /\ calls = 0

\* Both handlers have been constructed.
Constructed ==
    /\ Untouched
    /\ h = [p \in Procs |-> Construct]
    /\ arg = "none"
    /\ ret = "none"

Init ==
    /\ rule \in {"size", "time"}
    /\ timeRate = IF rule = "time" THEN "everysecond" ELSE "none"
    /\ now = 0
    /\ Constructed

\* emit(record, callback)
Emit(p, ok) ==
    /\ Total(emitted) + calls < MaxEmits
    /\ LET due == CheckDue(h[p])
           wr  == WriteIssued(due, ok)
           f1  == IF wr THEN Write(file, h[p].stream) ELSE file
           h1  == [h[p] EXCEPT !.nextRotateCheckTime = now + maxSizeStatFileInterval]
           r   == reopen(h1, f1, ok)
       IN  /\ due \/ ok
           /\ emitted' = [emitted EXCEPT ![p] = @ + 1]
           /\ written' = [written EXCEPT ![p] = IF wr THEN @ + 1 ELSE @]
           /\ called' = [called EXCEPT ![p] = IF wr THEN @ + 1 ELSE @]
           /\ IF due
              THEN /\ h' = [h EXCEPT ![p] = r.h]
                   /\ file' = r.f
                   /\ tasks' = IF ok
                               THEN [tasks EXCEPT ![p] = Add(@, StatTask(FALSE, "resolve"))]
                               ELSE tasks
              ELSE /\ file' = f1
                   /\ UNCHANGED <<h, tasks>>
    /\ UNCHANGED <<fixed, calls, now, lock, archives, external, lastAttempt>>

\* The timer of _setRotateTimeout fires: doRotate(true, _setRotateTimeout).
TimerFire(p) ==
    /\ h[p].rotateTimeout # Undef
    /\ now >= h[p].rotateTimeout
    /\ h' = [h EXCEPT ![p].rotateTimeout = Undef]
    /\ tasks' = [tasks EXCEPT ![p] = Add(@, StatTask(TRUE, "setRotateTimeout"))]
    /\ UNCHANGED <<fixed, calls, now, file, lock, archives, emitted, written, called,
                   external, lastAttempt>>

\* doRotate once the stat of shouldRotate -> _getData has answered.
StatDone(p, t, res, ok) ==
    /\ BagIn(t, tasks[p])
    /\ t.pc = "stat"
    /\ res \in StatResults(file)
    /\ LET g      == getData(h[p], file, res, ok)
           result == shouldRotate(g.h, g.t, t.force)
       IN  /\ file' = g.f
           /\ IF StartsRotate(g.h, result)
              THEN /\ h' = [h EXCEPT ![p] = [g.h EXCEPT !.rotatingNow = TRUE]]
                   /\ tasks' = [tasks EXCEPT ![p] = WithRetry(Moved(@, t, "lock"), g.retry)]
                   /\ lastAttempt' = lastAttempt
              ELSE /\ h' = [h EXCEPT ![p] = callCb(g.h, t.cb)]
                   /\ tasks' = [tasks EXCEPT ![p] = WithRetry(Remove(@, t), g.retry)]
                   /\ lastAttempt' = IF result THEN "skipped" ELSE lastAttempt
    /\ UNCHANGED <<fixed, calls, now, lock, archives, emitted, written, called, external>>

\* The _getData() of line 330 once its stat has answered: nothing consumes
\* it, and on ENOENT its own catch calls _getData() again.
RetryDone(p, t, res, ok) ==
    /\ BagIn(t, tasks[p])
    /\ t.pc \in {"retry", "again"}
    /\ res \in StatResults(file)
    /\ LET g == getData(h[p], file, res, ok)
       IN  /\ file' = g.f
           /\ h' = [h EXCEPT ![p] = g.h]
           /\ tasks' = [tasks EXCEPT ![p] =
                           IF g.retry THEN Add(Remove(@, t), AgainTask) ELSE Remove(@, t)]
    /\ UNCHANGED <<fixed, calls, now, lock, archives, emitted, written, called, external,
                   lastAttempt>>

\* rotate: lockFile.lock creates the marker.  Line 355: the stat is issued.
LockAcquired(p, t) ==
    /\ BagIn(t, tasks[p])
    /\ t.pc = "lock"
    /\ lock = NoOwner
    /\ lock' = p
    /\ tasks' = [tasks EXCEPT ![p] = Moved(@, t, "locked")]
    /\ UNCHANGED <<fixed, calls, now, file, archives, h, emitted, written, called,
                   external, lastAttempt>>

\* rotate, lines 394-409: the marker exists through every retry.
LockRejected(p, t, ok) ==
    /\ BagIn(t, tasks[p])
    /\ t.pc = "lock"
    /\ lock # NoOwner
    /\ LET h1 == resetSchedule(h[p])
           r  == reopen(h1, file, ok)
       IN  /\ file' = r.f
           /\ lock' = IF ok THEN lock ELSE unlockSync(lock)
           /\ lastAttempt' = IF ok THEN "lock rejected" ELSE "lock rejected, reopen threw"
           /\ h' = [h EXCEPT ![p] = callCb(rotateResolved(r.h), t.cb)]
    /\ tasks' = [tasks EXCEPT ![p] = Remove(@, t)]
    /\ UNCHANGED <<fixed, calls, now, archives, emitted, written, called, external>>

\* rotate, lines 355-409, once the stat under the lock has answered.  A failed
\* stat rejects (line 383).  After a stat that answered, fs.accessSync (time
\* rule) throws the TypeError that line 362 catches and line 364 logs, and
\* fs.renameSync, line 370, throws the TypeError that rejects the chain.  Either
\* way the catch of line 403 runs: unlock, resolve.  lastAttempt is "ran"
\* when the attempt got past the stat.
LockedStatDone(p, t, res) ==
    /\ BagIn(t, tasks[p])
    /\ t.pc = "locked"
    /\ res \in StatResults(file)
    /\ lock' = unlockSync(lock)
    /\ lastAttempt' = IF res = "ok" THEN "ran" ELSE "stat failed"
    /\ h' = [h EXCEPT ![p] = callCb(rotateResolved(@), t.cb)]
    /\ tasks' = [tasks EXCEPT ![p] = Remove(@, t)]
    /\ UNCHANGED <<fixed, calls, now, file, archives, emitted, written, called, external>>

Tick ==
    /\ now < MaxTicks * ClockStep
    /\ now' = now + ClockStep
    /\ UNCHANGED <<fixed, calls, file, lock, archives, h, tasks, emitted, written, called,
                   external, lastAttempt>>

\* An external actor removes the live file.
ExternalDelete ==
    /\ external = "none"
    /\ file.exists
    /\ file' = [file EXCEPT !.exists = FALSE]
    /\ external' = "deleted"
    /\ UNCHANGED <<fixed, calls, now, lock, archives, h, tasks, emitted, written, called,
                   lastAttempt>>

\* An external actor truncates the live file.
ExternalTruncate ==
    /\ external = "none"
    /\ file.exists
    /\ file.size > 0
    /\ file' = [file EXCEPT !.size = 0]
    /\ external' = "truncated"
    /\ UNCHANGED <<fixed, calls, now, lock, archives, h, tasks, emitted, written, called,
                   lastAttempt>>

\* The application calls doRotate(force) itself, with no cb.
DoRotateCall(p, force) ==
    /\ calls = 0
    /\ Total(emitted) < MaxEmits
    /\ calls' = calls + 1
    /\ tasks' = [tasks EXCEPT ![p] = Add(@, StatTask(force, "none"))]
    /\ UNCHANGED <<fixed, now, file, lock, archives, h, emitted, written, called,
                   external, lastAttempt>>

\* The doRotate calls: line 207 (emit) and line 164 (the timer).
TaskStates ==
    {[pc |-> pc, force |-> FALSE, cb |-> "resolve"] : pc \in {"stat", "lock", "locked"}}
    \cup {[pc |-> pc, force |-> TRUE, cb |-> "setRotateTimeout"] :
              pc \in {"stat", "lock", "locked"}}

Next ==
    \/ \E p \in Procs, ok \in BOOLEAN : Emit(p, ok)
    \/ \E p \in Procs : TimerFire(p)
    \/ \E p \in Procs, t \in TaskStates, res \in {"ok", "error", "ENOENT"}, ok \in BOOLEAN :
          StatDone(p, t, res, ok)
    \/ \E p \in Procs, t \in {RetryTask, AgainTask},
          res \in {"ok", "error", "ENOENT"}, ok \in BOOLEAN : RetryDone(p, t, res, ok)
    \/ \E p \in Procs, t \in TaskStates : LockAcquired(p, t)
    \/ \E p \in Procs, t \in TaskStates, ok \in BOOLEAN : LockRejected(p, t, ok)
    \/ \E p \in Procs, t \in TaskStates, res \in {"ok", "error", "ENOENT"} :
          LockedStatDone(p, t, res)
    \/ Tick
    \/ ExternalDelete
    \/ ExternalTruncate

Spec == Init /\ [][Next]_vars

----------------------------------------------------------------------------
\* The time rule under an application that also calls doRotate itself.  No
\* external actor touches the live file: no stat answers ENOENT.

CallStates ==
    {[pc |-> pc, force |-> force, cb |-> "none"] :
        pc \in {"stat", "lock", "locked"}, force \in BOOLEAN}

InitCalls ==
    /\ rule = "time"
    /\ timeRate = "everysecond"
    /\ now = 0
    /\ Constructed

NextCalls ==
    \/ \E p \in Procs, force \in BOOLEAN : DoRotateCall(p, force)
    \/ \E p \in Procs, ok \in BOOLEAN : Emit(p, ok)
    \/ \E p \in Procs : TimerFire(p)
    \/ \E p \in Procs, t \in TaskStates \cup CallStates,
          res \in {"ok", "error", "ENOENT"}, ok \in BOOLEAN : StatDone(p, t, res, ok)
    \/ \E p \in Procs, t \in TaskStates \cup CallStates : LockAcquired(p, t)
    \/ \E p \in Procs, t \in TaskStates \cup CallStates, ok \in BOOLEAN :
          LockRejected(p, t, ok)
    \/ \E p \in Procs, t \in TaskStates \cup CallStates,
          res \in {"ok", "error", "ENOENT"} : LockedStatDone(p, t, res)
    \/ Tick

SpecCalls == InitCalls /\ [][NextCalls]_vars

----------------------------------------------------------------------------
\* The monthly rate: the handlers are constructed at the start or in the
\* middle of a month.

InitRates ==
    /\ rule = "time"
    /\ timeRate = "monthly"
    /\ now \in {0, Month \div 2}
    /\ Constructed

SpecRates == InitRates /\ [][Next]_vars

----------------------------------------------------------------------------
\* The program under a scheduler that runs every callback that is due: the
\* callback of lockFile.lock is called, with the lock or with the error of
\* the last retry, and the stat under the lock answers.

Fairness ==
    \A p \in Procs :
        /\ WF_vars(\E t \in TaskStates :
                      LockAcquired(p, t) \/ \E ok \in BOOLEAN : LockRejected(p, t, ok))
        /\ WF_vars(\E t \in TaskStates, res \in {"ok", "error", "ENOENT"} :
                      LockedStatDone(p, t, res))

\* No external actor touches the live file, so no stat is retried.
NextLive ==
    \/ \E p \in Procs, ok \in BOOLEAN : Emit(p, ok)
    \/ \E p \in Procs : TimerFire(p)
    \/ \E p \in Procs, t \in TaskStates, res \in {"ok", "error", "ENOENT"}, ok \in BOOLEAN :
          StatDone(p, t, res, ok)
    \/ \E p \in Procs, t \in TaskStates : LockAcquired(p, t)
    \/ \E p \in Procs, t \in TaskStates, ok \in BOOLEAN : LockRejected(p, t, ok)
    \/ \E p \in Procs, t \in TaskStates, res \in {"ok", "error", "ENOENT"} :
          LockedStatDone(p, t, res)
    \/ Tick

SpecLive == Init /\ [][NextLive]_vars /\ Fairness

----------------------------------------------------------------------------
\* Functions applied on their own: arg is the call, ret what it returned.

NotCalled == [done |-> FALSE]

Returned(v) == [done |-> TRUE, thrown |-> "none", value |-> v]

Threw(e) == [done |-> TRUE, thrown |-> e, value |-> Undef]

\* new RotatingFileHandler(options), at the instant arg.now.
NewArgs ==
    {[op |-> "new", rule |-> "time", timeRate |-> r, now |-> t] :
        r \in {"everysecond", "monthly", "interval"}, t \in {0, 15, 500, 1000, 1500}}
    \cup {[op |-> "new", rule |-> "size", timeRate |-> "none", now |-> t] :
              t \in {0, 500}}

New ==
    /\ arg.op = "new"
    /\ ~ret.done
    /\ ret' = IF ConstructorThrows THEN Threw("TypeError") ELSE Returned(Construct)
    /\ UNCHANGED <<rule, timeRate, now, file, lock, archives, h, tasks, emitted,
                   written, called, external, lastAttempt, calls, arg>>

\* The values of a record's fields.  A string is a sequence of chunks, each
\* a text without special characters or one special character.
Str(chunks) == [t |-> "string", n |-> 0, s |-> chunks]
Num(n) == [t |-> "number", n |-> n, s |-> <<>>]
Undefined == [t |-> "undefined", n |-> 0, s |-> <<>>]
Null == [t |-> "null", n |-> 0, s |-> <<>>]
\* new Date(n), n < 1000
Date(n) == [t |-> "date", n |-> n, s |-> <<>>]
\* An Error whose stack is the given string.
Error(stack) == [t |-> "error", n |-> 0, s |-> stack]
\* An object that has no stack.
Object == [t |-> "object", n |-> 0, s |-> <<>>]

RECURSIVE Join(_, _)
\* The strings of q, sep between them.
Join(q, sep) ==
    IF q = <<>> THEN ""
    ELSE IF Len(q) = 1 THEN q[1]
    ELSE q[1] \o sep \o Join(Tail(q), sep)

RECURSIVE Flatten(_, _)
\* The sequences of q in one sequence, sep between them.
Flatten(q, sep) ==
    IF q = <<>> THEN <<>>
    ELSE IF Len(q) = 1 THEN q[1]
    ELSE q[1] \o sep \o Flatten(Tail(q), sep)

\* util.format of arguments whose first has no placeholder: the chunks of
\* each, a space between two arguments.
utilFormat(args) ==
    Flatten([i \in 1..Len(args) |->
                IF args[i].t = "number" THEN <<ToString(args[i].n)>> ELSE args[i].s],
            <<" ">>)

\* JSON.stringify of a string: quoted, its special characters escaped.
Quote(chunks) ==
    "\"" \o Join([i \in 1..Len(chunks) |->
                     IF chunks[i] = "\n" THEN "\\n"
                     ELSE IF chunks[i] = "\"" THEN "\\\"" ELSE chunks[i]], "")
         \o "\""

\* Date.prototype.toISOString, within the first second of the epoch.
toISOString(n) ==
    "1970-01-01T00:00:00."
        \o (IF n < 10 THEN "00" ELSE IF n < 100 THEN "0" ELSE "") \o ToString(n) \o "Z"

\* JSON.stringify of a value that is not undefined.
stringify(v) ==
    CASE v.t = "string" -> Quote(v.s)
      [] v.t = "number" -> ToString(v.n)
      [] v.t = "date"   -> Quote(<<toISOString(v.n)>>)
      [] v.t = "object" -> "{}"
      [] OTHER          -> "null"

\* JSON.stringify of an object, its members in insertion order: a member
\* whose value is undefined is left out.
JSONstringify(obj) ==
    LET kept == SelectSeq(obj, LAMBDA m : m.v.t # "undefined")
    IN  "{" \o Join([i \in 1..Len(kept) |->
                        "\"" \o kept[i].k \o "\":" \o stringify(kept[i].v)], ",")
            \o "}"

EOL == "\n"

KeysPidFirst == <<"pid", "levelname", "timestamp">>

\* Line 41: the optional keys, in the order forEach visits them.
OptionalKeys == <<"levelname", "pid", "timestamp">>

\* if (record.err)
Truthy(v) ==
    /\ v.t \notin {"undefined", "null"}
    /\ ~(v.t = "number" /\ v.n = 0)
    /\ ~(v.t = "string" /\ v.s = <<>>)

\* record.err.stack
stack(v) == IF v.t = "error" THEN Str(v.s) ELSE Undefined

\* Formatter.prototype.format with _format = 'json'.
format(record) ==
    LET formatted == utilFormat(record.args)
        set == SelectSeq(OptionalKeys, LAMBDA k : record[k].t \notin {"undefined", "null"})
        obj == <<[k |-> "name", v |-> record.name],
                 [k |-> "message", v |-> Str(formatted)]>>
               \o [i \in 1..Len(set) |-> [k |-> set[i], v |-> record[set[i]]]]
               \o (IF Truthy(record.err)
                   THEN <<[k |-> "err", v |-> stack(record.err)]>> ELSE <<>>)
    IN  JSONstringify(obj) \o EOL

FormatArgs ==
    {[op |-> "format",
      record |-> [name |-> Str(<<"some name">>),
                  message |-> Str(<<"some message">>),
                  args |-> a, levelname |-> l, pid |-> i, timestamp |-> d, err |-> e]] :
        a \in {<<Str(<<"some message">>)>>,
               <<Str(<<"some message">>), Num(1), Str(<<"abc">>)>>,
               <<Str(<<"say ", "\"", "hi", "\"">>)>>},
        l \in {Undefined, Null, Str(<<"INFO">>)},
        i \in {Undefined, Null, Num(123), Num(0)},
        d \in {Undefined, Null, Date(0)},
        e \in {Undefined, Null, Object, Error(<<"Error: boom", "\n", "    at f">>)}}

Format ==
    /\ arg.op = "format"
    /\ ~ret.done
    /\ ret' = Returned(format(arg.record))
    /\ UNCHANGED <<rule, timeRate, now, file, lock, archives, h, tasks, emitted,
                   written, called, external, lastAttempt, calls, arg>>

\* A directory: whether <file>.tmp is there, and the n of the <file>.n there.
RenameArgs ==
    {[op |-> "renameBySize", dir |-> [tmp |-> b, ranks |-> R], maxFiles |-> k] :
        b \in BOOLEAN, R \in SUBSET (1..3), k \in 1..2}

RECURSIVE Ascending(_)
Ascending(S) ==
    IF S = {} THEN <<>>
    ELSE LET m == CHOOSE x \in S : \A y \in S : x <= y
         IN  <<m>> \o Ascending(S \ {m})

\* Lines 446-463: the matching files, tmp (written 0) first, then by number.
sortedList(dir) == (IF dir.tmp THEN <<0>> ELSE <<>>) \o Ascending(dir.ranks)

\* _renameBySize.  The loop of line 464 starts at the last file of the list:
\* it calls fs.unlinkSync when the index is at or beyond maxFiles and
\* fs.renameSync otherwise, and either throws the TypeError that rejects the
\* promise.  The directory is as it was.
renameBySize(dir, keep) ==
    [dir    |-> dir,
     thrown |-> IF Len(sortedList(dir)) > 0 THEN "TypeError" ELSE "none"]

RenameBySize ==
    /\ arg.op = "renameBySize"
    /\ ~ret.done
    /\ LET r == renameBySize(arg.dir, arg.maxFiles)
       IN  ret' = [done |-> TRUE, thrown |-> r.thrown, value |-> r.dir]
    /\ UNCHANGED <<rule, timeRate, now, file, lock, archives, h, tasks, emitted,
                   written, called, external, lastAttempt, calls, arg>>

InitFns ==
    /\ \/ /\ arg \in NewArgs
          /\ rule = arg.rule
          /\ timeRate = arg.timeRate
          /\ now = arg.now
       \/ /\ arg \in FormatArgs \cup RenameArgs
          /\ rule = "size"
          /\ timeRate = "none"
          /\ now = 0
    /\ ret = NotCalled
    /\ h = [p \in Procs |-> Undef]
    /\ Untouched

NextFns ==
    \/ New
    \/ Format
    \/ RenameBySize

SpecFns == InitFns /\ [][NextFns]_vars

----------------------------------------------------------------------------
\* What the claims speak of.

\* The tasks of bag b that are at one of pcs.
Copies(pcs, b) == CopiesIn(TRUE, BagOfAll(LAMBDA t : t.pc \in pcs, b))

\* The rotate() calls of p that have not resolved.
RotatesInFlight(p) == Copies({"lock", "locked"}, tasks[p])

\* The rotate() calls of p between lockFile.lock's success and the unlock.
Locked(p) == Copies({"locked"}, tasks[p])

\* A rotate() of p that holds the lock resolves in this step.
LockedEnds(p) == Locked(p) > 0 /\ Locked(p)' < Locked(p)

\* The stream of p is not open on the file at the live path.
Stale(p) == ~file.exists \/ h[p].stream # file.id

EmitStep(p) == emitted'[p] = emitted[p] + 1

\* emit called reopen, lines 205-206, in this step.
ReopenCalled(p) == h'[p].nextRotateCheckTime # h[p].nextRotateCheckTime

DeadlinePassed(p) ==
    /\ rule = "size"
    /\ \/ h[p].nextRotateCheckTime = Undef
       \/ h[p].nextRotateCheckTime < now

FirstBoundary == nextRotate(0)

\* C1: under the time rule, once a rotate() for the boundary the clock has
\* crossed has held the lock and found the live file, the archive named by
\* the start of the period that ends at that boundary exists.
C1_ArchiveForBoundary ==
    (rule = "time" /\ lastAttempt = "ran") => rotatePeriod(FirstBoundary) \in archives

\* C2: under the size rule, when the rotate() started by a throttled check
\* of emit ends, the live file is not above maxSize by more than one record.
C2_SizeBackUnderThreshold ==
    [][(rule = "size" /\ lastAttempt' = "ran" /\ \E p \in Procs : LockedEnds(p))
          => file'.size <= maxSize + RecordSize]_vars

\* C3: with maxFiles = N, after N or more rotations exactly N archives remain
\* (here N = 1: after any rotation).
C3_RetainedArchives ==
    lastAttempt = "ran" => Cardinality(archives) = maxFiles

\* C4: under the time rule, when a second rotate() for the same boundary
\* ends under the lock after another one has run, exactly one of the two has
\* renamed the live file: the archive of the period exists, and the second
\* has only reopened its stream and released the lock.
C4_OneRenames ==
    [][\A p \in Procs :
          (/\ rule = "time"
           /\ lastAttempt = "ran"
           /\ LockedEnds(p)
           /\ lastAttempt' = "ran")
             => /\ archives' = {rotatePeriod(FirstBoundary)}
                /\ h'[p].prevSize = Undef
                /\ h'[p].stream = file'.id
                /\ lock' = NoOwner]_vars

\* C5: under the size rule, an attempt that holds the lock and whose stat
\* shows a size no longer above maxSize ends with its stream reopened (the
\* size tracking reset, the stream on the live file) and the lock released.
C5_SkipsWhenNoLongerOversized ==
    [][\A p \in Procs :
          (/\ rule = "size"
           /\ LockedEnds(p)
           /\ lastAttempt' = "ran"
           /\ file.size <= maxSize)
             => /\ h'[p].prevSize = Undef
                /\ h'[p].stream = file'.id
                /\ lock' = NoOwner]_vars

\* C6: at most one rotate(), over all processes, is between acquiring and
\* releasing the lock.
C6_OneLockHolder ==
    Locked("A") + Locked("B") <= 1

\* C7: the marker a rotate() created is gone when that rotate() ends: a
\* process owns the lock only while one of its attempts is between
\* acquiring and releasing it.
C7_LockReleased ==
    \A p \in Procs : lock = p => Locked(p) > 0

C7_Witness ==
    /\ lastAttempt \in {"ran", "stat failed"}
    /\ lock = NoOwner
    /\ \A p \in Procs : Locked(p) = 0

\* C8: at most one rotate() is in flight per handler.
C8_OneRotatePerHandler ==
    \A p \in Procs : RotatesInFlight(p) <= 1

C8_Witness ==
    /\ lastAttempt = "skipped"
    /\ \E p \in Procs : h[p].rotatingNow /\ RotatesInFlight(p) = 1

LockRejectedStep(p) ==
    /\ Copies({"lock"}, tasks[p])' < Copies({"lock"}, tasks[p])
    /\ Locked(p)' = Locked(p)

TimerAttempts(p) ==
    CopiesIn(TRUE, BagOfAll(LAMBDA t : t.cb = "setRotateTimeout", tasks[p]))

\* C12: under the time rule every handler has, at any moment, either a timer
\* armed for the next boundary or a timer-driven attempt in flight, which
\* will arm one.
C12_TimerRuns ==
    rule = "time" =>
        \A p \in Procs : h[p].rotateTimeout # Undef \/ TimerAttempts(p) > 0

\* C13: a handler given rule 'time' and a raw interval as timeRate is
\* constructed, with its next boundary at now + interval and its period start
\* at the boundary - interval.
C13_IntervalConstructs ==
    (arg.op = "new" /\ timeRate = "interval" /\ ret.done) =>
        /\ ret.thrown = "none"
        /\ ret.value.rotateAt = now + Interval
        /\ ret.value.rotateStartPeriod = now

\* The text of the member k of a JSON object, for a value that is set.
Member(k, v) ==
    "\"" \o k \o "\":"
        \o (CASE v.t = "number" -> ToString(v.n)
               [] v.t = "date"   -> "\"1970-01-01T00:00:00.000Z\""
               [] v = Str(<<"INFO">>) -> "\"INFO\""
               [] v = Str(<<"some name">>) -> "\"some name\"")

IsSet(v) == v # Null /\ v # Undefined

\* C14: with format 'json' the text is an object's JSON followed by the line
\* terminator, with the members name, message (the util.format of args),
\* levelname, pid and timestamp when they are not null or undefined, and err
\* (the stack) when record.err is set, in this order and no other member.
C14_JsonFormat ==
    (arg.op = "format" /\ ret.done) =>
        LET r == arg.record
            message ==
                CASE Len(r.args) = 3       -> "\"message\":\"some message 1 abc\""
                  [] r.args[1].s[1] = "say " -> "\"message\":\"say \\\"hi\\\"\""
                  [] OTHER                 -> "\"message\":\"some message\""
            members ==
                <<Member("name", r.name), message>>
                \o (IF IsSet(r.levelname) THEN <<Member("levelname", r.levelname)>> ELSE <<>>)
                \o (IF IsSet(r.pid) THEN <<Member("pid", r.pid)>> ELSE <<>>)
                \o (IF IsSet(r.timestamp) THEN <<Member("timestamp", r.timestamp)>> ELSE <<>>)
                \o (IF r.err.t = "error"
                    THEN <<"\"err\":\"Error: boom\\n    at f\"">> ELSE <<>>)
        IN  /\ ret.thrown = "none"
            /\ ret.value = "{" \o Join(members, ",") \o "}" \o "\n"

\* The record of the test 'should format as json'.
C14_Witness ==
    /\ arg.op = "format"
    /\ ret.done
    /\ ret.value = "{\"name\":\"some name\",\"message\":\"some message 1 abc\",\"levelname\":\"INFO\",\"pid\":123,\"timestamp\":\"1970-01-01T00:00:00.000Z\",\"err\":\"Error: boom\\n    at f\"}\n"

\* C15: a rotate() that got past the stat under the lock has, when it ends,
\* moved the live file away, opened a fresh stream at the original path,
\* produced the archive, pruned down to maxFiles and released the lock.
C15_DestructiveSequence ==
    [][\A p \in Procs :
          (LockedEnds(p) /\ lastAttempt' = "ran") =>
             /\ file'.id # file.id
             /\ h'[p].stream = file'.id
             /\ archives' # archives
             /\ Cardinality(archives') <= maxFiles
             /\ lock' = NoOwner]_vars

\* C16, as stated: under the time rule every recomputation of rotateAt (the
\* code reaches only that of the lock-failure path) yields a value strictly
\* greater than the one it replaces.
C16_RotateAtIncreases ==
    [][\A p \in Procs :
          (rule = "time" /\ LockRejectedStep(p)) => h'[p].rotateAt > h[p].rotateAt]_vars

\* C16, amended: the recomputed rotateAt, with its period start, is the
\* boundary after the current instant; it is never smaller than the one it
\* replaces, and strictly greater when the clock has reached the one it
\* replaces.
C16_RotateAtNeverDecreases ==
    [][\A p \in Procs :
          (rule = "time" /\ LockRejectedStep(p)) =>
             /\ h'[p].rotateAt = nextRotate(now)
             /\ h'[p].rotateAt >= h[p].rotateAt
             /\ now >= h[p].rotateAt => h'[p].rotateAt > h[p].rotateAt]_vars

C16_Witness ==
    /\ rule = "time"
    /\ calls = 1
    /\ lastAttempt = "lock rejected"
    /\ \E p \in Procs : /\ h[p].rotateAt > FirstBoundary
                        /\ h[p].rotateStartPeriod = rotatePeriod(h[p].rotateAt)

\* The doRotate calls of p whose shouldRotate waits for its stat.
Deciding(p) == {t \in BagToSet(tasks[p]) : t.pc = "stat"}

\* C17, as stated: under the time rule shouldRotate(force) yields true when
\* force is set, or now >= rotateAt, or the last check is earlier than the
\* period start, and false when none of the three holds, whatever the stat
\* answers.
C17_ThreeConditions ==
    rule = "time" =>
        \A p \in Procs : \A t \in Deciding(p) :
            \A res \in StatResults(file), ok \in BOOLEAN :
                LET g == getData(h[p], file, res, ok)
                    early == g.h.prevCheckTime # Undef
                                /\ g.h.prevCheckTime < g.h.rotateStartPeriod
                IN  shouldRotate(g.h, g.t, t.force)
                        = (t.force \/ now >= g.h.rotateAt \/ early)

\* C17, amended: when the snapshot yields data the decision is the
\* disjunction of the three conditions; when it yields none (the stat
\* failed) the decision is false, also for a forced call.
C17_ThreeConditionsOnData ==
    rule = "time" =>
        \A p \in Procs : \A t \in Deciding(p) :
            \A res \in StatResults(file), ok \in BOOLEAN :
                LET g == getData(h[p], file, res, ok)
                IN  IF res = "ok"
                    THEN shouldRotate(g.h, g.t, t.force)
                            = (\/ t.force
                               \/ now >= g.h.rotateAt
                               \/ g.h.prevCheckTime < g.h.rotateStartPeriod)
                    ELSE ~shouldRotate(g.h, g.t, t.force)

C17_Witness ==
    /\ rule = "time"
    /\ file.exists
    /\ \E p \in Procs : \E t \in Deciding(p) : ~t.force /\ now >= h[p].rotateAt

\* C18: a snapshot whose stat found no file retries the stat once: the retry
\* is the last stat of that snapshot, whatever it answers.
C18_AtMostTwoStats ==
    \A p \in Procs : Copies({"again"}, tasks[p]) = 0

\* C19: _renameBySize, run on a directory that holds the temporary file,
\* leaves the archives numbered 1..m, 1 <= m <= maxFiles, and no temporary
\* file.
C19_CompactedRanks ==
    (arg.op = "renameBySize" /\ arg.dir.tmp /\ ret.done) =>
        /\ ret.thrown = "none"
        /\ ~ret.value.tmp
        /\ \E m \in 1..arg.maxFiles : ret.value.ranks = 1..m

\* C20: a rotate() whose lock acquisition failed leaves the lock file as it
\* is, also when the reopen of its fallback path throws.
C20_RejectedNeverUnlocks ==
    [][\A p \in Procs : LockRejectedStep(p) => lock' = lock]_vars

\* C21: whenever the guard _rotatingNow of a handler is set, it is cleared
\* later: every rotate() that doRotate started resolves.
C21_GuardCleared ==
    \A p \in Procs : h[p].rotatingNow ~> ~h[p].rotatingNow

\* A handler has ended an attempt on the lock-failure path, its reopen
\* throwing, and its guard is clear while the other handler's attempt goes on.
C21_Witness ==
    /\ lastAttempt = "lock rejected, reopen threw"
    /\ \E p \in Procs : /\ ~h[p].rotatingNow
                        /\ RotatesInFlight(p) = 0
                        /\ h[p].prevSize = Undef
                        /\ \E q \in Procs \ {p} : h[q].rotatingNow /\ Locked(q) = 1

====
